---- MODULE Spec2Model ----
(***************************************************************************)
(* Model of three parts of the library:                                    *)
(*   - ckks.LinearTransformEncoder (src/ckks/linear_transform.go)          *)
(*   - ckks.Evaluator.Average      (src/ckks/linear_transform.go)          *)
(*   - rlwe.EvaluationKey          (src/unnamed/part_000)                  *)
(* Each part has its own specification (SpecEnc, SpecAvg, SpecEvk) over    *)
(* the same variables; the variables of the other parts stay idle.         *)
(***************************************************************************)
EXTENDS Integers, Sequences, FiniteSets

VARIABLES
    diagonals,  \* LinearTransformEncoder.diagonals: map[int][]T
    values,     \* LinearTransformEncoder.values: the scratch buffer
    output,     \* the ringqp.Poly handed to the encode calls
    call,       \* the last encoder call and what it did
    moduli,     \* the primes of ringQ.SubRings
    ctIn,       \* Average's input ciphertext
    ctOut,      \* Average's output ciphertext
    avg,        \* the last evaluator call and what it did
    evk,        \* the EvaluationKey being serialized
    wire,       \* the bytes MarshalBinary returned
    dst,        \* the EvaluationKey UnmarshalBinary decodes into
    ser         \* the position of the serialization round and its errors

vars == <<diagonals, values, output, call, moduli, ctIn, ctOut, avg, evk, wire, dst, ser>>

encVars == <<diagonals, values, output, call>>
avgVars == <<moduli, ctIn, ctOut, avg>>
evkVars == <<evk, wire, dst, ser>>

(***************************************************************************)
(* Bounds                                                                  *)
(***************************************************************************)
\* largest logSlots of the encoder: ecd.Parameters().MaxSlots() = 2^MaxLogSlots
MaxLogSlots == 2
\* width of the machine integer `rot` is masked in (two's complement)
IntBits == 6
\* number of calls made on one encoder, or on one pair of ciphertexts
MaxCalls == 2
\* largest LogSlots of the ciphertexts handed to Average
MaxCtLogSlots == 3
\* largest levelQ and levelP an EvaluationKey is constructed at
MaxLevelQ == 1
MaxLevelP == 1
\* number of distinct non-zero coefficients of a generated key
MaxCoeff == 2

(***************************************************************************)
(* Arithmetic helpers                                                      *)
(***************************************************************************)
RECURSIVE Pow2(_)
Pow2(k) == IF k = 0 THEN 1 ELSE 2 * Pow2(k - 1)

Min(a, b) == IF a <= b THEN a ELSE b

\* the bit pattern of a signed machine integer, as a natural number
ToUnsigned(x) == IF x < 0 THEN x + Pow2(IntBits) ELSE x

\* bitwise AND of two bit patterns
RECURSIVE BitAnd(_, _)
BitAnd(a, b) ==
    IF a = 0 \/ b = 0 THEN 0
    ELSE (a % 2) * (b % 2) + 2 * BitAnd(a \div 2, b \div 2)

(***************************************************************************)
(* Go slices: a backing array (its length is the capacity) and a length    *)
(***************************************************************************)
NilSlice == [arr |-> <<>>, len |-> 0]

Cap(s) == Len(s.arr)

\* the elements s[lo:hi] of a slice
Elems(s, lo, hi) == [p \in 1..(hi - lo) |-> s.arr[lo + p]]

\* copy(dst[off:off+room], src): copies min(room, len(src)) elements
CopyInto(buf, off, room, src) ==
    LET k == Min(room, Len(src))
    IN [p \in 1..Len(buf) |-> IF p > off /\ p <= off + k THEN src[p - off] ELSE buf[p]]

(***************************************************************************)
(* LinearTransformEncoder                                                  *)
(***************************************************************************)
MaxSlots == Pow2(MaxLogSlots)

\* NewLinearTransformEncoder: values = make([]T, MaxSlots), all zero values
NewValues == [p \in 1..MaxSlots |-> 0]

NoCall == [count |-> 0, op |-> "none", i |-> 0, rot |-> 0, logSlots |-> 0, norm |-> 0,
           branch |-> "none", res |-> "none", embedCalled |-> FALSE, embed |-> <<>>]

NoOutput == [vec |-> <<>>, logSlots |-> 0, written |-> FALSE]

\* Encoder.Embed(values, logSlots, scale, true, output): the polynomial it writes
Embed(vec, logSlots) == [vec |-> vec, logSlots |-> logSlots, written |-> TRUE]

\* faulty variant of Lookup: no fallback to i - slots
LookupNoAlias(diags, i, slots) ==
    IF i \in DOMAIN diags THEN diags[i] ELSE NilSlice

\* v, ok := l.diagonals[i]; if !ok { v = l.diagonals[i-slots] }
Lookup(diags, i, slots) ==
    IF i \in DOMAIN diags THEN diags[i]
    ELSE IF (i - slots) \in DOMAIN diags THEN diags[i - slots]
    ELSE NilSlice

\* faulty variant of MaskRot: rot &= slots
MaskRotOffByOne(rot, slots) == BitAnd(ToUnsigned(rot), ToUnsigned(slots))

\* rot &= (slots - 1)
MaskRot(rot, slots) == BitAnd(ToUnsigned(rot), ToUnsigned(slots - 1))

\* faulty variant of RotateCopy: rotates to the right,
\* copy(values[:rot], v[slots-rot:]); copy(values[rot:], v[:slots-rot])
RotateCopyRight(vals, v, rot, slots) ==
    LET ok == /\ 0 <= slots - rot /\ slots - rot <= Len(vals)
              /\ 0 <= rot /\ rot <= v.len /\ slots - rot <= Cap(v)
    IN IF ~ok THEN [ok |-> FALSE, values |-> vals]
       ELSE [ok |-> TRUE,
             values |-> CopyInto(CopyInto(vals, 0, rot, Elems(v, slots - rot, v.len)),
                                 rot, Len(vals) - rot, Elems(v, 0, slots - rot))]

\* copy(values[:slots-rot], v[rot:]); copy(values[slots-rot:], v[:rot])
\* ok is FALSE when one of the slice expressions is out of range (a panic)
RotateCopy(vals, v, rot, slots) ==
    LET ok1 == /\ 0 <= slots - rot /\ slots - rot <= Len(vals)
               /\ 0 <= rot /\ rot <= v.len
        ok2 == rot <= Cap(v)
    IN IF ~(ok1 /\ ok2) THEN [ok |-> FALSE, values |-> vals]
       ELSE [ok |-> TRUE,
             values |-> CopyInto(CopyInto(vals, 0, slots - rot, Elems(v, rot, v.len)),
                                 slots - rot, Len(vals) - (slots - rot), Elems(v, 0, rot))]

\* the else branch: copy(values[slots-rot:], v)
AsymCopy(vals, v, rot, slots) ==
    IF ~(0 <= slots - rot /\ slots - rot <= Len(vals))
    THEN [ok |-> FALSE, values |-> vals]
    ELSE [ok |-> TRUE,
          values |-> CopyInto(vals, slots - rot, Len(vals) - (slots - rot), Elems(v, 0, v.len))]

\* lines 65-80 on the looked-up diagonal v with the masked rot: the branch
\* taken, the scratch buffer afterwards and the vector handed to Embed
EncodeOn(v, vals, rot, slots) ==
    IF rot # 0 THEN
        LET branch == IF slots >= rot THEN "wrap" ELSE "asym"
            c == IF slots >= rot THEN RotateCopy(vals, v, rot, slots)
                 ELSE AsymCopy(vals, v, rot, slots)
        IN IF c.ok /\ slots <= Len(vals)
           THEN [res |-> "ok", branch |-> branch, values |-> c.values,
                 embed |-> SubSeq(c.values, 1, slots)]
           ELSE [res |-> "panic", branch |-> branch, values |-> c.values, embed |-> <<>>]
    ELSE
        IF slots <= Cap(v)
        THEN [res |-> "ok", branch |-> "direct", values |-> vals,
              embed |-> Elems(v, 0, slots)]
        ELSE [res |-> "panic", branch |-> "direct", values |-> vals, embed |-> <<>>]

\* EncodeLinearTransformDiagonal(i, rot, scale, logSlots, output)
EncodeOutcome(diags, vals, i, rot, logSlots) ==
    LET slots == Pow2(logSlots)
    IN EncodeOn(Lookup(diags, i, slots), vals, MaskRot(rot, slots), slots)

\* faulty variant of NaiveOutcome: looks i - slots up as well
NaiveOutcomeAlias(diags, i, logSlots) ==
    LET v == Lookup(diags, i, Pow2(logSlots))
    IN IF v # NilSlice
       THEN [res |-> "ok", embed |-> Elems(v, 0, v.len)]
       ELSE [res |-> "DiagonalNotFound", embed |-> <<>>]

\* EncodeLinearTransformDiagonalNaive(i, scale, logSlots, output)
NaiveOutcome(diags, i, logSlots) ==
    IF i \in DOMAIN diags
    THEN [res |-> "ok", embed |-> Elems(diags[i], 0, diags[i].len)]
    ELSE [res |-> "DiagonalNotFound", embed |-> <<>>]

\* the diagonal indices the model stores and asks for
DiagKeys == {1, 1 - MaxSlots}
AskKeys == DiagKeys \cup {0}

\* the k-th backing-array element of the diagonal stored under key
Tag(key, k) == 100 * (IF key = 1 THEN 1 ELSE 2) + k

MkSlice(key, len, cap) == [arr |-> [k \in 1..cap |-> Tag(key, k)], len |-> len]

\* <<len, cap>> of the stored diagonals: exactly MaxSlots, shorter (with and
\* without spare capacity), longer
Shapes(key) ==
    IF key = 1
    THEN { <<MaxSlots, MaxSlots>>, <<MaxSlots \div 2, MaxSlots>> }
    ELSE { <<MaxSlots, MaxSlots>>, <<MaxSlots \div 2, MaxSlots \div 2>>,
           <<MaxSlots + 1, MaxSlots + 1>> }

DiagonalMaps ==
    UNION { { m \in [K -> UNION { Shapes(k) : k \in K }] : \A k \in K : m[k] \in Shapes(k) }
            : K \in SUBSET DiagKeys }

\* rotations asked for: negative, in range, and beyond the slot count
RotRange == {0 - 1, 0, 1, 2, MaxSlots - 1, MaxSlots, MaxSlots + 1}

LogSlotsRange == {MaxLogSlots - 1, MaxLogSlots}

IdleEnc ==
    /\ diagonals = <<>>
    /\ values = <<>>
    /\ output = NoOutput
    /\ call = NoCall

IdleAvg ==
    /\ moduli = <<>>
    /\ ctIn = <<>>
    /\ ctOut = <<>>
    /\ avg = <<>>

IdleEvk ==
    /\ evk = <<>>
    /\ wire = <<>>
    /\ dst = <<>>
    /\ ser = <<>>

InitEnc ==
    /\ \E m \in DiagonalMaps :
          diagonals = [k \in DOMAIN m |-> MkSlice(k, m[k][1], m[k][2])]
    /\ values = NewValues
    /\ output = NoOutput
    /\ call = NoCall
    /\ IdleAvg
    /\ IdleEvk

EncodeLinearTransformDiagonal ==
    \E i \in AskKeys, rot \in RotRange, logSlots \in LogSlotsRange :
        LET slots == Pow2(logSlots)
            r == EncodeOutcome(diagonals, values, i, rot, logSlots)
        IN /\ call.count < MaxCalls
           /\ values' = r.values
           /\ output' = IF r.res = "ok" THEN Embed(r.embed, logSlots) ELSE output
           /\ call' = [count |-> call.count + 1, op |-> "EncodeLinearTransformDiagonal", i |-> i, rot |-> rot,
                       logSlots |-> logSlots, norm |-> MaskRot(rot, slots),
                       branch |-> r.branch, res |-> r.res,
                       embedCalled |-> (r.res = "ok"), embed |-> r.embed]
           /\ UNCHANGED <<diagonals, avgVars, evkVars>>

EncodeLinearTransformDiagonalNaive ==
    \E i \in AskKeys, logSlots \in LogSlotsRange :
        LET r == NaiveOutcome(diagonals, i, logSlots)
        IN /\ call.count < MaxCalls
           /\ output' = IF r.res = "ok" THEN Embed(r.embed, logSlots) ELSE output
           /\ call' = [count |-> call.count + 1, op |-> "EncodeLinearTransformDiagonalNaive", i |-> i, rot |-> 0,
                       logSlots |-> logSlots, norm |-> 0,
                       branch |-> "none", res |-> r.res,
                       embedCalled |-> (r.res = "ok"), embed |-> r.embed]
           /\ UNCHANGED <<diagonals, values, avgVars, evkVars>>

NextEnc == EncodeLinearTransformDiagonal \/ EncodeLinearTransformDiagonalNaive

SpecEnc == InitEnc /\ [][NextEnc]_vars

(***************************************************************************)
(* ring: modular arithmetic of one SubRing (modulus q, an odd prime)       *)
(***************************************************************************)
\* 2^k mod q
RECURSIVE Pow2Mod(_, _)
Pow2Mod(k, q) == IF k = 0 THEN 1 % q ELSE (2 * Pow2Mod(k - 1, q)) % q

\* ring.ModExp(x, e, q): x^e mod q by square and multiply
RECURSIVE ModExp(_, _, _)
ModExp(x, e, q) ==
    IF e = 0 THEN 1 % q
    ELSE LET h == ModExp(x, e \div 2, q)
             sq == (h * h) % q
         IN IF e % 2 = 1 THEN (sq * (x % q)) % q ELSE sq

\* the chains of limb primes of ringQ
ModuliChains == { <<13, 11>>, <<97, 7>>, <<17, 5>> }

LimbPrimes == UNION { { c[i] : i \in 1..Len(c) } : c \in ModuliChains }

\* per limb prime: 2^64 mod q (the Montgomery radix) and its inverse mod q
MontgomeryRadix == [q \in LimbPrimes |-> Pow2Mod(64, q)]
MontgomeryRadixInv == [q \in LimbPrimes |-> ModExp(Pow2Mod(64, q), q - 2, q)]

\* the Montgomery representation of 1
MontgomeryOne(q) == MontgomeryRadix[q]

\* ring.MForm(a, q, bredconstant): a * 2^64 mod q
MForm(a, q) == (a * MontgomeryRadix[q]) % q

\* ring.MRed(x, y, q, mredconstant): x * y * 2^-64 mod q
MRed(x, y, q) == (((x * y) % q) * MontgomeryRadixInv[q]) % q

\* SubRing.MulScalarMontgomery(p1, scalarMont, p2): the vector written to p2
MulScalarMontgomery(p1, scalarMont, q) ==
    [j \in 1..Len(p1) |-> MRed(p1[j], scalarMont, q)]

(***************************************************************************)
(* rlwe.Ciphertext: Value[k] is a polynomial, a sequence of limbs (one per *)
(* modulus up to the level), each limb a vector of residues over the slots *)
(***************************************************************************)
Degree(ct) == Len(ct.Value) - 1
Level(ct) == Len(ct.Value[1]) - 1

\* left rotation of a limb by `amount` slots
RotateLimb(limb, amount) ==
    [p \in 1..Len(limb) |-> limb[((p - 1 + amount) % Len(limb)) + 1]]

AddLimb(a, b, q) == [p \in 1..Len(a) |-> (a[p] + b[p]) % q]

\* log2(n) rotate-and-add steps, the k-th by batchSize * 2^k slots
RECURSIVE InnerSumLimb(_, _, _, _, _)
InnerSumLimb(limb, batchSize, n, step, q) ==
    IF step >= n THEN limb
    ELSE InnerSumLimb(AddLimb(limb, RotateLimb(limb, batchSize * step), q),
                      batchSize, n, 2 * step, q)

\* Evaluator.InnerSum(ct, batchSize, n, ct) in place, on both components of a
\* linear ciphertext and on every limb of its level
InnerSum(ct, batchSize, n, mods) ==
    [ct EXCEPT !.Value =
        [k \in 1..Len(ct.Value) |->
            IF k > 2 THEN ct.Value[k]
            ELSE [i \in 1..Len(ct.Value[k]) |->
                    InnerSumLimb(ct.Value[k][i], batchSize, n, 1, mods[i])]]]

(***************************************************************************)
(* Evaluator.Average                                                       *)
(***************************************************************************)
\* faulty variant of DegreeCheckFails: && in place of ||
DegreeCheckFailsBoth(cin, cout) == Degree(cin) # 1 /\ Degree(cout) # 1

\* if ctIn.Degree() != 1 || ctOut.Degree() != 1
DegreeCheckFails(cin, cout) == Degree(cin) # 1 \/ Degree(cout) # 1

\* faulty variant of ReductionCount: n := 1 << logBatchSize
ReductionCountSwapped(cin, logBatchSize) == Pow2(logBatchSize)

\* n := 1 << (ctIn.LogSlots - logBatchSize)
ReductionCount(cin, logBatchSize) == Pow2(cin.logSlots - logBatchSize)

\* faulty variant of InvN: the inverse is not put in Montgomery form
InvNPlain(n, q) == ModExp(n, q - 2, q)

\* invN := ring.ModExp(uint64(n), s.Modulus-2, s.Modulus); invN = ring.MForm(invN, ...)
InvN(n, q) == MForm(ModExp(n, q - 2, q), q)

\* the pre-multiplication loop over ringQ.SubRings[:level+1]
PreScale(cin, cout, n, mods) ==
    LET level == Min(Level(cin), Level(cout))
    IN [cout EXCEPT !.Value =
        [k \in 1..Len(cout.Value) |->
            IF k > 2 THEN cout.Value[k]
            ELSE [i \in 1..Len(cout.Value[k]) |->
                    IF i <= level + 1
                    THEN MulScalarMontgomery(cin.Value[k][i], InvN(n, mods[i]), mods[i])
                    ELSE cout.Value[k][i]]]]

\* Average(ctIn, logBatchSize, ctOut): its result, ctOut afterwards, whether
\* InnerSum was invoked, n and the per-limb invN
AverageOutcome(cin, cout, logBatchSize, mods) ==
    IF DegreeCheckFails(cin, cout)
    THEN [res |-> "InvalidOperand", ctOut |-> cout, innerSumCalled |-> FALSE,
          n |-> 0, invN |-> <<>>]
    ELSE IF logBatchSize > cin.logSlots
    THEN [res |-> "InvalidParameter", ctOut |-> cout, innerSumCalled |-> FALSE,
          n |-> 0, invN |-> <<>>]
    ELSE LET n == ReductionCount(cin, logBatchSize)
             level == Min(Level(cin), Level(cout))
         IN [res |-> "ok",
             ctOut |-> InnerSum(PreScale(cin, cout, n, mods), Pow2(logBatchSize), n, mods),
             innerSumCalled |-> TRUE,
             n |-> n,
             invN |-> [i \in 1..(level + 1) |-> InvN(n, mods[i])]]

\* plaintext-side integer vectors the input limbs are the residues of
InVec(a, b, slots) == [p \in 1..slots |-> a * p + b]

Residues(vec, q) == [p \in 1..Len(vec) |-> vec[p] % q]

\* a ciphertext of the given degree and level whose component k holds the
\* residues of InVec(a, b + k - 1)
MkCiphertext(degree, level, logSlots, a, b, mods) ==
    [logSlots |-> logSlots,
     Value |-> [k \in 1..(degree + 1) |->
                 [i \in 1..(level + 1) |->
                    Residues(InVec(a, b + k - 1, Pow2(logSlots)), mods[i])]]]

NoAvg == [count |-> 0, op |-> "none", logBatchSize |-> 0, res |-> "none",
          innerSumCalled |-> FALSE, n |-> 0, invN |-> <<>>]

InitAvg ==
    /\ moduli \in ModuliChains
    /\ \E degIn \in 1..2, degOut \in 1..2, lvIn \in 0..1, lvOut \in 0..1,
          ls \in 1..MaxCtLogSlots, a \in {1, 3}, b \in {0, 5}, c \in {0, 1} :
          /\ ctIn = MkCiphertext(degIn, lvIn, ls, a, b, moduli)
          /\ ctOut = MkCiphertext(degOut, lvOut, ls, 0, c, moduli)
    /\ avg = NoAvg
    /\ IdleEnc
    /\ IdleEvk

Average ==
    \E logBatchSize \in 0..(MaxCtLogSlots + 1) :
        LET r == AverageOutcome(ctIn, ctOut, logBatchSize, moduli)
        IN /\ avg.count < MaxCalls
           /\ ctOut' = r.ctOut
           /\ avg' = [count |-> avg.count + 1, op |-> "Average",
                      logBatchSize |-> logBatchSize, res |-> r.res,
                      innerSumCalled |-> r.innerSumCalled, n |-> r.n, invN |-> r.invN]
           /\ UNCHANGED <<moduli, ctIn, encVars, evkVars>>

NextAvg == Average

SpecAvg == InitAvg /\ [][NextAvg]_vars

(***************************************************************************)
(* rlwe.GadgetCiphertext: a decompRNS x decompPw2 matrix of coefficients   *)
(* and its binary form: one byte per dimension, then the coefficients row  *)
(* by row, each as two little-endian bytes                                 *)
(***************************************************************************)
\* Parameters.DecompRNS(levelQ, levelP), Parameters.DecompPw2(levelQ, levelP)
DecompRNS(levelQ, levelP) == (levelQ + levelP + 1) \div (levelP + 1)
DecompPw2(levelQ, levelP) == IF levelP > 0 THEN 1 ELSE 2

NewGadgetCiphertext(levelQ, levelP, decompRNS, decompPw2) ==
    [Value |-> [r \in 1..decompRNS |-> [c \in 1..decompPw2 |-> 0]]]

GadgetRows(g) == Len(g.Value)
GadgetCols(g) == IF Len(g.Value) = 0 THEN 0 ELSE Len(g.Value[1])

\* GadgetCiphertext.Equals
GadgetEquals(a, b) ==
    /\ GadgetRows(a) = GadgetRows(b)
    /\ GadgetCols(a) = GadgetCols(b)
    /\ \A r \in 1..GadgetRows(a) : \A c \in 1..GadgetCols(a) : a.Value[r][c] = b.Value[r][c]

\* GadgetCiphertext.CopyNew
GadgetCopyNew(g) ==
    [Value |-> [r \in 1..GadgetRows(g) |-> [c \in 1..GadgetCols(g) |-> g.Value[r][c]]]]

\* GadgetCiphertext.MarshalBinarySize
GadgetMarshalBinarySize(g) == 2 + 2 * GadgetRows(g) * GadgetCols(g)

\* the byte at offset k (1-based) of the binary form of g
GadgetByte(g, k) ==
    IF k = 1 THEN GadgetRows(g)
    ELSE IF k = 2 THEN GadgetCols(g)
    ELSE LET e == (k - 3) \div 2
             coeff == g.Value[(e \div GadgetCols(g)) + 1][(e % GadgetCols(g)) + 1]
         IN IF (k - 3) % 2 = 0 THEN coeff % 256 ELSE (coeff \div 256) % 256

\* GadgetCiphertext.Read(data): encodes into data, returns the bytes written
GadgetRead(g, data) ==
    IF Len(data) < GadgetMarshalBinarySize(g)
    THEN [ptr |-> 0, err |-> "BufferTooSmall", data |-> data]
    ELSE [ptr |-> GadgetMarshalBinarySize(g), err |-> "nil",
          data |-> [k \in 1..Len(data) |->
                      IF k <= GadgetMarshalBinarySize(g) THEN GadgetByte(g, k) ELSE data[k]]]

\* GadgetCiphertext.Write(data): decodes data, returns the bytes read
GadgetWrite(g, data) ==
    IF Len(data) < 2 \/ Len(data) < 2 + 2 * data[1] * data[2]
    THEN [ptr |-> 0, err |-> "MalformedData", g |-> g]
    ELSE LET rows == data[1]
             cols == data[2]
         IN [ptr |-> 2 + 2 * rows * cols, err |-> "nil",
             g |-> [Value |-> [r \in 1..rows |-> [c \in 1..cols |->
                       LET at == 2 + 2 * ((r - 1) * cols + (c - 1))
                       IN data[at + 1] + 256 * data[at + 2]]]]]

(***************************************************************************)
(* rlwe.EvaluationKey                                                      *)
(***************************************************************************)
NewEvaluationKey(levelQ, levelP) ==
    [GadgetCiphertext |-> NewGadgetCiphertext(levelQ, levelP,
                              DecompRNS(levelQ, levelP), DecompPw2(levelQ, levelP))]

EvkEquals(a, b) == GadgetEquals(a.GadgetCiphertext, b.GadgetCiphertext)

EvkCopyNew(k) == [GadgetCiphertext |-> GadgetCopyNew(k.GadgetCiphertext)]

EvkMarshalBinarySize(k) == GadgetMarshalBinarySize(k.GadgetCiphertext)

EvkRead(k, data) == GadgetRead(k.GadgetCiphertext, data)

\* faulty variant of EvkMarshalBinary: allocates one byte too few
EvkMarshalBinaryShort(k) ==
    LET r == EvkRead(k, [j \in 1..(EvkMarshalBinarySize(k) - 1) |-> 0])
    IN [data |-> r.data, err |-> r.err]

\* data = make([]byte, evk.MarshalBinarySize()); _, err = evk.Read(data)
EvkMarshalBinary(k) ==
    LET r == EvkRead(k, [j \in 1..EvkMarshalBinarySize(k) |-> 0])
    IN [data |-> r.data, err |-> r.err]

EvkWrite(k, data) ==
    LET r == GadgetWrite(k.GadgetCiphertext, data)
    IN [ptr |-> r.ptr, err |-> r.err, evk |-> [GadgetCiphertext |-> r.g]]

\* _, err = evk.Write(data)
EvkUnmarshalBinary(k, data) ==
    LET r == EvkWrite(k, data)
    IN [err |-> r.err, evk |-> r.evk]

\* the coefficients key generation fills a key with
CoeffValues == { 257 * c : c \in 0..MaxCoeff }

NoSer == [pc |-> "new", marshalErr |-> "none", unmarshalErr |-> "none", dataLen |-> 0]

InitEvk ==
    /\ \E levelQ \in 0..MaxLevelQ, levelP \in 0..MaxLevelP :
          evk = NewEvaluationKey(levelQ, levelP)
    /\ wire = <<>>
    /\ dst = NewEvaluationKey(0, 0)
    /\ ser = NoSer
    /\ IdleEnc
    /\ IdleAvg

\* key generation (outside this code) fills the pre-allocated key
GenKey ==
    /\ ser.pc = "new"
    /\ \E m \in [1..GadgetRows(evk.GadgetCiphertext) ->
                   [1..GadgetCols(evk.GadgetCiphertext) -> CoeffValues]] :
          evk' = [GadgetCiphertext |-> [Value |-> m]]
    /\ ser' = [ser EXCEPT !.pc = "generated"]
    /\ UNCHANGED <<wire, dst, encVars, avgVars>>

MarshalBinary ==
    /\ ser.pc \in {"new", "generated"}
    /\ LET r == EvkMarshalBinary(evk)
       IN /\ wire' = r.data
          /\ ser' = [ser EXCEPT !.pc = "marshalled", !.marshalErr = r.err]
    /\ UNCHANGED <<evk, dst, encVars, avgVars>>

\* UnmarshalBinary on the marshalled bytes or on a truncation of them
UnmarshalBinary ==
    /\ ser.pc = "marshalled"
    /\ \E k \in 0..Len(wire) :
          LET r == EvkUnmarshalBinary(dst, SubSeq(wire, 1, k))
          IN /\ dst' = r.evk
             /\ ser' = [ser EXCEPT !.pc = "unmarshalled", !.unmarshalErr = r.err,
                                   !.dataLen = k]
    /\ UNCHANGED <<evk, wire, encVars, avgVars>>

CopyNew ==
    /\ ser.pc = "generated"
    /\ dst' = EvkCopyNew(evk)
    /\ ser' = [ser EXCEPT !.pc = "copied"]
    /\ UNCHANGED <<evk, wire, encVars, avgVars>>

NextEvk == GenKey \/ MarshalBinary \/ UnmarshalBinary \/ CopyNew

SpecEvk == InitEvk /\ [][NextEvk]_vars

(***************************************************************************)
(* Properties of the LinearTransformEncoder                                *)
(***************************************************************************)
IsEncode(c) == c.op = "EncodeLinearTransformDiagonal"
IsNaive(c) == c.op = "EncodeLinearTransformDiagonalNaive"
Slots(c) == Pow2(c.logSlots)

\* C1: for a diagonal v of length slots stored under i and rot in [0, slots),
\* the vector handed to Embed has length slots and output[p] = v[(p + rot) mod slots]
C1_RotationCorrect ==
    (/\ IsEncode(call)
     /\ call.i \in DOMAIN diagonals
     /\ diagonals[call.i].len = Slots(call)
     /\ call.rot \in 0..(Slots(call) - 1))
    => /\ call.res = "ok"
       /\ call.embedCalled
       /\ Len(call.embed) = Slots(call)
       /\ \A p \in 0..(Slots(call) - 1) :
             call.embed[p + 1] = diagonals[call.i].arr[((p + call.rot) % Slots(call)) + 1]

\* the spec's example: [1,2,3,4] rotated by 1 is [2,3,4,1]
C1_Witness ==
    /\ IsEncode(call)
    /\ call.i = 1 /\ 1 \in DOMAIN diagonals
    /\ diagonals[1].len = MaxSlots
    /\ call.logSlots = MaxLogSlots
    /\ call.rot = 1
    /\ call.embed = [p \in 1..MaxSlots |-> IF p < MaxSlots THEN Tag(1, p + 1) ELSE Tag(1, 1)]

\* C3: with rot = 0 and i stored, the rotated encoding has the outcome of the
\* naive one (same vector to Embed, same result), for the stored lengths the
\* documentation admits (at most 2^logSlots)
C3_RotZeroEqualsNaive ==
    (/\ IsEncode(call)
     /\ call.i \in DOMAIN diagonals
     /\ diagonals[call.i].len <= Slots(call)
     /\ call.rot = 0)
    => LET n == NaiveOutcome(diagonals, call.i, call.logSlots)
       IN /\ (call.res = "ok") = (n.res = "ok")
          /\ call.embed = n.embed

\* C4: when i is not stored and i - slots is, the call does what it does on
\* the diagonal stored under i - slots with the same rot
C4_AliasEquivalence ==
    [][(/\ IsEncode(call')
        /\ call'.count = call.count + 1
        /\ call'.i \notin DOMAIN diagonals
        /\ (call'.i - Slots(call')) \in DOMAIN diagonals)
       => LET d == EncodeOn(diagonals[call'.i - Slots(call')], values,
                            MaskRot(call'.rot, Slots(call')), Slots(call'))
          IN /\ call'.res = d.res
             /\ call'.embed = d.embed
             /\ values' = d.values
             /\ output' = IF d.res = "ok" THEN Embed(d.embed, call'.logSlots) ELSE output]_vars

C4_Witness ==
    /\ IsEncode(call)
    /\ call.i \notin DOMAIN diagonals
    /\ (call.i - Slots(call)) \in DOMAIN diagonals
    /\ call.res = "ok"
    /\ call.norm # 0
    /\ call.embed # <<>>

\* C5: the naive encoding of an index that is no key of the mapping returns
\* DiagonalNotFound (even when i - slots is a key), never calls Embed and
\* leaves output as it was
C5_NaiveMissing ==
    [][(/\ IsNaive(call')
        /\ call'.count = call.count + 1
        /\ call'.i \notin DOMAIN diagonals)
       => /\ call'.res = "DiagonalNotFound"
          /\ ~call'.embedCalled
          /\ output' = output]_vars

C5_Witness ==
    /\ IsNaive(call)
    /\ call.i \notin DOMAIN diagonals
    /\ (call.i - Slots(call)) \in DOMAIN diagonals
    /\ call.res = "DiagonalNotFound"
    /\ output.written

\* C9: the vector a successful call hands to Embed is the one the same call
\* hands to Embed on a freshly constructed encoder
C9_ScratchNotRetained ==
    (IsEncode(call) /\ call.res = "ok")
    => call.embed = EncodeOutcome(diagonals, NewValues, call.i, call.rot, call.logSlots).embed

\* C10: rot is normalized to rot mod slots in [0, slots), the call does what
\* the call with that representative does, and the slots < rot branch is not taken
C10_RotNormalized ==
    [][(IsEncode(call') /\ call'.count = call.count + 1)
       => LET rep == call'.rot % Slots(call')
              d == EncodeOutcome(diagonals, values, call'.i, rep, call'.logSlots)
          IN /\ call'.norm = rep
             /\ call'.norm \in 0..(Slots(call') - 1)
             /\ call'.branch # "asym"
             /\ call'.res = d.res
             /\ call'.embed = d.embed
             /\ values' = d.values]_vars

C10_Witness ==
    /\ IsEncode(call)
    /\ call.rot > Slots(call)
    /\ call.norm = 1
    /\ call.branch = "wrap"
    /\ call.res = "ok"

(***************************************************************************)
(* Properties of Evaluator.Average                                         *)
(***************************************************************************)
IsAverage(c) == c.op = "Average"

\* sum over the n sub-vectors of the entries at offset p (1-based) of a limb
RECURSIVE SubVectorSum(_, _, _, _)
SubVectorSum(limb, batchSize, n, p) ==
    IF n = 0 THEN 0
    ELSE limb[((p - 1) % batchSize) + (n - 1) * batchSize + 1]
         + SubVectorSum(limb, batchSize, n - 1, p)

\* C6: Average on a ctIn or ctOut that is not of degree 1 fails with
\* InvalidOperand, writes nothing to ctOut and does not invoke InnerSum
C6_DegreePrecondition ==
    [][(/\ IsAverage(avg')
        /\ avg'.count = avg.count + 1
        /\ (Degree(ctIn) # 1 \/ Degree(ctOut) # 1))
       => /\ avg'.res = "InvalidOperand"
          /\ ctOut' = ctOut
          /\ ~avg'.innerSumCalled]_vars

C6_Witness ==
    /\ IsAverage(avg)
    /\ Degree(ctIn) = 2
    /\ Degree(ctOut) = 1
    /\ avg.logBatchSize <= ctIn.logSlots
    /\ avg.res = "InvalidOperand"

\* C7: after a successful Average every position of every sub-vector of
\* ctOut holds n^-1 times the sum of the n input sub-vectors at that offset,
\* in every limb up to the common level of both components; where n divides
\* the sum, that is the mean itself
C7_AverageIsMean ==
    (IsAverage(avg) /\ avg.res = "ok")
    => LET batchSize == Pow2(avg.logBatchSize)
           n == Pow2(ctIn.logSlots - avg.logBatchSize)
           level == Min(Level(ctIn), Level(ctOut))
       IN \A k \in 1..2 : \A i \in 1..(level + 1) : \A p \in 1..Pow2(ctIn.logSlots) :
            LET q == moduli[i]
                sum == SubVectorSum(ctIn.Value[k][i], batchSize, n, p)
                out == ctOut.Value[k][i][p]
            IN /\ out \in 0..(q - 1)
               /\ (n * out) % q = sum % q
               /\ (sum % n = 0 /\ sum \div n < q) => out = sum \div n

\* the spec's example: [1,2, 3,4, 5,6, 7,8], batchSize 2, n = 4 gives [4,5] everywhere
C7_Witness ==
    /\ IsAverage(avg) /\ avg.res = "ok"
    /\ avg.logBatchSize = 1
    /\ avg.n = 4
    /\ ctIn.Value[1][1] = <<1, 2, 3, 4, 5, 6, 7, 8>>
    /\ ctOut.Value[1][1] = <<4, 5, 4, 5, 4, 5, 4, 5>>

\* C8: for every limb modulus q the loop uses, n * invN mod q is the
\* Montgomery representation of 1, and MulScalarMontgomery by invN
\* multiplies every residue by n^-1 mod q
C8_InverseCorrect ==
    (IsAverage(avg) /\ avg.res = "ok")
    => \A i \in 1..Len(avg.invN) :
          LET q == moduli[i]
          IN /\ (avg.n * avg.invN[i]) % q = MontgomeryOne(q)
             /\ \A x \in 0..(q - 1) : (avg.n * MRed(x, avg.invN[i], q)) % q = x

C8_Witness ==
    /\ IsAverage(avg) /\ avg.res = "ok"
    /\ avg.n = 4
    /\ Len(avg.invN) = 2
    /\ MontgomeryOne(moduli[1]) # 1
    /\ avg.invN[1] # ModExp(avg.n, moduli[1] - 2, moduli[1])

(***************************************************************************)
(* Properties of the EvaluationKey                                         *)
(***************************************************************************)
\* C2: UnmarshalBinary of the bytes MarshalBinary returned succeeds and
\* yields a key that Equals the original; the bytes are exactly the
\* MarshalBinarySize bytes of the wrapped GadgetCiphertext's encoding
C2_RoundTrip ==
    (ser.pc = "unmarshalled" /\ ser.dataLen = Len(wire))
    => /\ ser.marshalErr = "nil"
       /\ ser.unmarshalErr = "nil"
       /\ EvkEquals(dst, evk)
       /\ Len(wire) = GadgetMarshalBinarySize(evk.GadgetCiphertext)
       /\ \A k \in 1..Len(wire) : wire[k] = GadgetByte(evk.GadgetCiphertext, k)

C2_Witness ==
    /\ ser.pc = "unmarshalled"
    /\ ser.dataLen = Len(wire)
    /\ ser.unmarshalErr = "nil"
    /\ GadgetRows(evk.GadgetCiphertext) = 2
    /\ GadgetCols(evk.GadgetCiphertext) = 2
    /\ evk.GadgetCiphertext.Value[2][1] = 514
    /\ dst.GadgetCiphertext.Value[2][1] = 514
    /\ ~EvkEquals(evk, NewEvaluationKey(1, 0))

====
